---- MODULE Spec2Model ----
\* Model of scripts/send_logs_from_file.py: the command line entry point, the
\* reading of the log file, the chunked send loop with one HTTP POST per line,
\* the progress lines and the completion report.
\*
\* Text (file lines, command line arguments, decimal renderings) is a sequence
\* of one-character strings, so that trimming, slicing and parsing are computed.
EXTENDS Integers, Sequences, FiniteSets, TLC

\* ---------------------------------------------------------------- bounds
\* Largest number of raw lines in the input file.
MaxFileLines == 3

\* ------------------------------------------------------ program constants
DefaultBatchSize == 100
ProgressEvery == 500
PreviewLen == 80
TimeoutSecs == 5
SeverityInfo == 9

OTLP_ENDPOINT == "http://localhost:4318/v1/logs"

\* ------------------------------------------------------------ text helpers
Whitespace == {" ", "\t", "\n"}

DigitChars == <<"0", "1", "2", "3", "4", "5", "6", "7", "8", "9">>

IsDigit(c) == \E d \in DOMAIN DigitChars : DigitChars[d] = c

DigitValue(c) == (CHOOSE d \in DOMAIN DigitChars : DigitChars[d] = c) - 1

\* s[a:b] of Python for 0 <= a, with b clipped to the length (0-based, b excluded).
Slice(s, a, b) ==
    LET hi == IF b > Len(s) THEN Len(s) ELSE b
    IN  IF a >= hi THEN << >> ELSE [k \in 1..(hi - a) |-> s[a + k]]

\* Leading whitespace removed.
RECURSIVE LStrip(_)
LStrip(s) ==
    IF s # << >> /\ Head(s) \in Whitespace THEN LStrip(Tail(s)) ELSE s

\* Trailing whitespace removed.
RECURSIVE RStrip(_)
RStrip(s) ==
    IF s # << >> /\ s[Len(s)] \in Whitespace
    THEN RStrip(SubSeq(s, 1, Len(s) - 1))
    ELSE s

\* Variant of Strip that trims on the left only (str.lstrip()).
StripLeftOnly(s) == LStrip(s)

\* str.strip(): leading and trailing whitespace removed.
Strip(s) == RStrip(LStrip(s))

\* str(n) for a natural number: its decimal digits.
RECURSIVE Str(_)
Str(n) ==
    IF n < 10 THEN <<DigitChars[n + 1]>>
    ELSE Str(n \div 10) \o <<DigitChars[(n % 10) + 1]>>

\* str.lower() on the letters that occur in severity names.
LowerChar(c) ==
    CASE c = "I" -> "i" [] c = "N" -> "n" [] c = "F" -> "f" [] c = "O" -> "o"
      [] OTHER -> c

Lower(s) == [k \in DOMAIN s |-> LowerChar(s[k])]

\* Value of a non-empty digit sequence.
RECURSIVE DigitsValue(_)
DigitsValue(d) ==
    IF Len(d) = 1 THEN DigitValue(d[1])
    ELSE 10 * DigitsValue(SubSeq(d, 1, Len(d) - 1)) + DigitValue(d[Len(d)])

\* int(text): surrounding whitespace is ignored, then an optional sign and at
\* least one digit; anything else raises ValueError (ok = FALSE).
ParseInt(text) ==
    LET t      == Strip(text)
        signed == t # << >> /\ t[1] \in {"-", "+"}
        d      == IF signed THEN Tail(t) ELSE t
    IN  IF d = << >> \/ \E k \in DOMAIN d : ~IsDigit(d[k])
        THEN [ok |-> FALSE, val |-> 0]
        ELSE [ok |-> TRUE,
              val |-> IF signed /\ t[1] = "-" THEN 0 - DigitsValue(d)
                      ELSE DigitsValue(d)]

\* f"{x:.0f}" of the quotient a / b for b > 0: round half to even.
RoundDiv(a, b) ==
    LET q == a \div b
        r == a % b
    IN  IF 2 * r > b THEN q + 1
        ELSE IF 2 * r = b THEN q + (q % 2)
        ELSE q

\* ------------------------------------------------------------------ inputs
\* Raw lines as the file iterator yields them, newline included.
LongLine == [k \in 1..(PreviewLen + 2) |-> IF k = PreviewLen + 2 THEN "\n" ELSE "c"]

RawLines ==
    { <<"\n">>,
      <<" ", " ", "\n">>,
      <<"a", "\n">>,
      <<" ", "b", " ", "b", "\t", "\n">>,
      LongLine }

RECURSIVE SeqsUpTo(_, _)
SeqsUpTo(S, n) ==
    IF n = 0 THEN { << >> }
    ELSE LET shorter == SeqsUpTo(S, n - 1)
         IN  shorter \cup { Append(q, x) : q \in { r \in shorter : Len(r) = n - 1 }, x \in S }

Files == SeqsUpTo(RawLines, MaxFileLines)

\* sys.argv[2] as typed on the command line.
BatchArgs ==
    { <<"1">>, <<"2">>, <<"5", "0", "0">>, <<"0">>, <<"-", "1">>, <<"x">> }

\* sys.argv: no arguments (both defaults apply), or a path and a batch size.
Argvs ==
    { <<"send_logs_from_file.py">> }
        \cup { <<"send_logs_from_file.py", "logs.txt", b>> : b \in BatchArgs }

\* What open() / the read of the file does.
FileStatuses == {"ok", "missing", "undecodable"}

\* What one urlopen(req, timeout=5) call ends in: the status of a response
\* that urllib hands back (2xx), or the exception it raises.
\*   HTTPError        a response with a status outside 2xx (subclass of URLError)
\*   URLError         the request could not be sent (connection refused)
\*   TimeoutError     no response within the timeout, raised by getresponse()
\*   BadStatusLine    malformed or aborted response (http.client.HTTPException)
ReturnedStatuses == {200, 204}
ErrorStatuses == {500}
Outcomes ==
    [kind : {"status"}, code : ReturnedStatuses]
        \cup [kind : {"HTTPError"}, code : ErrorStatuses]
        \cup [kind : {"URLError", "TimeoutError", "BadStatusLine"}, code : {0}]

\* The exception classes the except clause names, by subclassing.
CaughtKinds == {"HTTPError", "URLError"}

\* Clock ticks one call takes: a timeout lasts the whole bounded wait.
Duration(o) ==
    CASE o.kind = "TimeoutError" -> TimeoutSecs
      [] o.kind = "URLError" -> 0
      [] OTHER -> 1

\* ------------------------------------------------------------------- state
VARIABLES
    argv,          \* sys.argv
    fileStatus,    \* whether the file at file_path can be opened and decoded
    fileLines,     \* the raw lines of that file
    pc,            \* position of the single control flow
    crash,         \* the uncaught exception that ended the process, or "none"
    file_path,     \* send_logs parameter
    batch_size,    \* send_logs parameter
    lines,         \* the LogLines
    total_lines,
    sent,
    failed,
    start_time,
    i,             \* loop variable of the outer for
    next_i,        \* next value of range(0, total_lines, batch_size)
    batch,         \* current chunk
    j,             \* 1-based position of the inner for in batch
    clock,         \* time.time()
    posts,         \* the requests handed to urlopen, in order
    replies,       \* what each of those calls ended in
    output         \* the lines printed to standard output

vars == <<argv, fileStatus, fileLines, pc, crash, file_path, batch_size, lines,
          total_lines, sent, failed, start_time, i, next_i, batch, j, clock,
          posts, replies, output>>

\* One printed line; the fields a given kind does not use are 0 or empty.
Line(kind, n, m, rate, elapsed, text, err) ==
    [kind |-> kind, n |-> n, m |-> m, rate |-> rate, elapsed |-> elapsed,
     text |-> text, err |-> err]

Plain(kind) == Line(kind, 0, 0, 0, 0, << >>, "")

Init ==
    /\ argv \in Argvs
    /\ fileStatus \in FileStatuses
    /\ fileLines \in (IF fileStatus = "ok" THEN Files ELSE { << >> })
    /\ pc = "Idle"
    /\ crash = "none"
    /\ file_path = ""
    /\ batch_size = 0
    /\ lines = << >>
    /\ total_lines = 0
    /\ sent = 0
    /\ failed = 0
    /\ start_time = 0
    /\ i = 0
    /\ next_i = 0
    /\ batch = << >>
    /\ j = 1
    /\ clock = 0
    /\ posts = << >>
    /\ replies = << >>
    /\ output = << >>

\* ----------------------------------------------------------------- helpers
\* [line.strip() for line in f if line.strip()]
RECURSIVE ReadLines(_)
ReadLines(f) ==
    IF f = << >> THEN << >>
    ELSE IF Strip(Head(f)) # << >>
         THEN <<Strip(Head(f))>> \o ReadLines(Tail(f))
         ELSE ReadLines(Tail(f))

SEVERITY_DEFAULT == <<"I", "N", "F", "O">>

\* Variant of create_otlp_payload that reads the clock a second time for the
\* observed timestamp.
create_otlp_payload_two_clock_reads(log_body, severity, now_ns) ==
    [resourceLogs |-> <<
        [resource |-> [attributes |-> <<
            [key |-> "service.name", value |-> [stringValue |-> "real-logs"]],
            [key |-> "host.name", value |-> [stringValue |-> "combo"]],
            [key |-> "deployment.environment", value |-> [stringValue |-> "production"]] >>],
         scopeLogs |-> <<
            [scope |-> [name |-> "file-log-sender", version |-> "1.0.0"],
             logRecords |-> <<
                [timeUnixNano |-> Str(now_ns),
                 observedTimeUnixNano |-> Str(now_ns + 1),
                 severityNumber |-> SeverityInfo,
                 severityText |-> severity,
                 body |-> [stringValue |-> log_body],
                 attributes |-> <<
                    [key |-> "log.level", value |-> [stringValue |-> Lower(severity)]],
                    [key |-> "log.source", value |-> [stringValue |-> <<"f", "i", "l", "e">>]] >>] >>] >>] >>]

\* create_otlp_payload(log_body, severity), with the clock reading now_ns that
\* int(time.time() * 1_000_000_000) gives it.
create_otlp_payload(log_body, severity, now_ns) ==
    [resourceLogs |-> <<
        [resource |-> [attributes |-> <<
            [key |-> "service.name", value |-> [stringValue |-> "real-logs"]],
            [key |-> "host.name", value |-> [stringValue |-> "combo"]],
            [key |-> "deployment.environment", value |-> [stringValue |-> "production"]] >>],
         scopeLogs |-> <<
            [scope |-> [name |-> "file-log-sender", version |-> "1.0.0"],
             logRecords |-> <<
                [timeUnixNano |-> Str(now_ns),
                 observedTimeUnixNano |-> Str(now_ns),
                 severityNumber |-> SeverityInfo,
                 severityText |-> severity,
                 body |-> [stringValue |-> log_body],
                 attributes |-> <<
                    [key |-> "log.level", value |-> [stringValue |-> Lower(severity)]],
                    [key |-> "log.source", value |-> [stringValue |-> <<"f", "i", "l", "e">>]] >>] >>] >>] >>]

\* Request(OTLP_ENDPOINT, data=json.dumps(payload).encode(), headers=...) as
\* passed to urlopen(req, timeout=5); json holds the document that is serialised.
HttpPost(payload) ==
    [url |-> OTLP_ENDPOINT, method |-> "POST", json |-> payload,
     contentType |-> "application/json", timeout |-> TimeoutSecs]

\* Membership in range(0, total, step) of a value reached by adding step.
InRange(v, total, step) == IF step > 0 THEN v < total ELSE v > total

\* sent / elapsed if elapsed > 0 else 0, as printed with :.0f
Rate(s, elapsed) == IF elapsed > 0 THEN RoundDiv(s, elapsed) ELSE 0

\* ----------------------------------------------------------------- actions
\* Variant of Main that falls back to the default batch size when the argument
\* does not parse.
MainFallbackOnBadArg ==
    /\ pc = "Idle"
    /\ LET parsed == IF Len(argv) > 2 THEN ParseInt(argv[3])
                     ELSE [ok |-> TRUE, val |-> DefaultBatchSize]
       IN  /\ file_path' = IF Len(argv) > 1 THEN argv[2] ELSE "tmp/logs.txt"
           /\ batch_size' = IF parsed.ok THEN parsed.val ELSE DefaultBatchSize
           /\ pc' = "Reading"
    /\ UNCHANGED <<argv, fileStatus, fileLines, crash, lines, total_lines, sent,
                   failed, start_time, i, next_i, batch, j, clock, posts,
                   replies, output>>

\* The __main__ block: the arguments are read and send_logs is called.
Main ==
    /\ pc = "Idle"
    /\ LET parsed == IF Len(argv) > 2 THEN ParseInt(argv[3])
                     ELSE [ok |-> TRUE, val |-> DefaultBatchSize]
       IN  /\ file_path' = IF Len(argv) > 1 THEN argv[2] ELSE "tmp/logs.txt"
           /\ IF parsed.ok
              THEN /\ batch_size' = parsed.val
                   /\ pc' = "Reading"
                   /\ crash' = crash
              ELSE /\ batch_size' = batch_size
                   /\ pc' = "Crashed"
                   /\ crash' = "ValueError_int"
    /\ UNCHANGED <<argv, fileStatus, fileLines, lines, total_lines, sent,
                   failed, start_time, i, next_i, batch, j, clock, posts,
                   replies, output>>

\* send_logs up to the loop: the file is read and the counters are set.
ReadFile ==
    /\ pc = "Reading"
    /\ IF fileStatus = "ok"
       THEN /\ lines' = ReadLines(fileLines)
            /\ total_lines' = Len(lines')
            /\ output' = output \o <<Line("reading", 0, 0, 0, 0, << >>, ""),
                                     Line("found", total_lines', 0, 0, 0, << >>, ""),
                                     Plain("sending_to")>>
            /\ sent' = 0
            /\ failed' = 0
            /\ start_time' = clock
            /\ next_i' = 0
            /\ pc' = "Loop"
            /\ crash' = crash
       ELSE /\ output' = Append(output, Plain("reading"))
            /\ pc' = "Crashed"
            /\ crash' = IF fileStatus = "missing" THEN "FileNotFoundError"
                        ELSE "UnicodeDecodeError"
            /\ UNCHANGED <<lines, total_lines, sent, failed, start_time, next_i>>
    /\ UNCHANGED <<argv, fileStatus, fileLines, file_path, batch_size, i, batch,
                   j, clock, posts, replies>>

\* The head of the outer for: range() is built (a zero step raises) and the
\* next chunk is sliced, or the loop ends.
ForBatch ==
    /\ pc = "Loop"
    /\ IF batch_size = 0
       THEN /\ pc' = "Crashed"
            /\ crash' = "ValueError_range"
            /\ UNCHANGED <<i, next_i, batch, j>>
       ELSE IF InRange(next_i, total_lines, batch_size)
            THEN /\ i' = next_i
                 /\ next_i' = next_i + batch_size
                 /\ batch' = Slice(lines, next_i, next_i + batch_size)
                 /\ j' = 1
                 /\ pc' = "Sending"
                 /\ crash' = crash
            ELSE /\ pc' = "Reporting"
                 /\ crash' = crash
                 /\ UNCHANGED <<i, next_i, batch, j>>
    /\ UNCHANGED <<argv, fileStatus, fileLines, file_path, batch_size, lines,
                   total_lines, sent, failed, start_time, clock, posts, replies,
                   output>>

\* One pass of the inner for: the payload is built and posted, and the outcome
\* of the call is counted.
SendLine ==
    /\ pc = "Sending"
    /\ j <= Len(batch)
    /\ \E o \in Outcomes :
        LET line    == batch[j]
            payload == create_otlp_payload(line, SEVERITY_DEFAULT, clock)
        IN  /\ posts' = Append(posts, HttpPost(payload))
            /\ replies' = Append(replies, o)
            /\ clock' = clock + Duration(o)
            /\ IF o.kind = "status"
               THEN IF o.code = 200
                    THEN /\ sent' = sent + 1
                         /\ UNCHANGED <<failed, output, pc, crash>>
                    ELSE /\ failed' = failed + 1
                         /\ output' = Append(output,
                                Line("failed_status", o.code, 0, 0, 0,
                                     Slice(line, 0, PreviewLen), ""))
                         /\ UNCHANGED <<sent, pc, crash>>
               ELSE IF o.kind \in CaughtKinds
                    THEN /\ failed' = failed + 1
                         /\ output' = Append(output,
                                Line("error", o.code, 0, 0, 0, << >>, o.kind))
                         /\ UNCHANGED <<sent, pc, crash>>
                    ELSE /\ pc' = "Crashed"
                         /\ crash' = o.kind
                         /\ UNCHANGED <<sent, failed, output>>
    /\ j' = j + 1
    /\ UNCHANGED <<argv, fileStatus, fileLines, file_path, batch_size, lines,
                   total_lines, start_time, i, next_i, batch>>

\* The end of a chunk: the progress check.
EndBatch ==
    /\ pc = "Sending"
    /\ j > Len(batch)
    /\ output' = IF (i + batch_size) % ProgressEvery = 0
                 THEN Append(output,
                        Line("progress", sent, total_lines,
                             Rate(sent, clock - start_time), 0, << >>, ""))
                 ELSE output
    /\ pc' = "Loop"
    /\ UNCHANGED <<argv, fileStatus, fileLines, crash, file_path, batch_size,
                   lines, total_lines, sent, failed, start_time, i, next_i,
                   batch, j, clock, posts, replies>>

\* The final statistics.
Report ==
    /\ pc = "Reporting"
    /\ LET elapsed == clock - start_time
       IN  output' = output \o
              <<Line("report", sent, failed, Rate(sent, elapsed), elapsed, << >>, ""),
                Plain("query_hint")>>
    /\ pc' = "Done"
    /\ UNCHANGED <<argv, fileStatus, fileLines, crash, file_path, batch_size,
                   lines, total_lines, sent, failed, start_time, i, next_i,
                   batch, j, clock, posts, replies>>

Next ==
    \/ Main
    \/ ReadFile
    \/ ForBatch
    \/ SendLine
    \/ EndBatch
    \/ Report

Spec == Init /\ [][Next]_vars

\* ------------------------------------------------------------- observations
\* A raw line that is not empty after trimming.
NonBlank(raw) == \E k \in DOMAIN raw : raw[k] \notin Whitespace

NonBlankIdx == { k \in DOMAIN fileLines : NonBlank(fileLines[k]) }

\* Position among the non-blank raw lines (the set idx) of the one at index x.
RankIn(idx, x) == Cardinality({ y \in idx : y <= x })

\* t is raw without its leading and trailing whitespace, and is not empty.
IsTrimOf(t, raw) ==
    /\ t # << >>
    /\ t[1] \notin Whitespace
    /\ t[Len(t)] \notin Whitespace
    /\ \E a \in 0..(Len(raw) - Len(t)) :
          /\ SubSeq(raw, a + 1, a + Len(t)) = t
          /\ \A q \in 1..a : raw[q] \in Whitespace
          /\ \A q \in (a + Len(t) + 1)..Len(raw) : raw[q] \in Whitespace

\* The log record a posted request carries, and its body.
RecordOf(req) == req.json.resourceLogs[1].scopeLogs[1].logRecords[1]

BodyOf(req) == RecordOf(req).body.stringValue

PostedBodies == [k \in DOMAIN posts |-> BodyOf(posts[k])]

Printed(kind) == { d \in DOMAIN output : output[d].kind = kind }

ReadDone == \E d \in DOMAIN output : output[d].kind = "found"

Ok200 == [kind |-> "status", code |-> 200]

\* The first PreviewLen characters of a line.
Preview(line) ==
    [q \in 1..(IF Len(line) < PreviewLen THEN Len(line) ELSE PreviewLen) |-> line[q]]

\* ------------------------------------------------------------------- claims
\* C1: when the completion report is reached and every POST was answered with
\* status 200, sent equals the number of non-blank lines of the file and
\* failed is 0, whatever integer the batch-size argument is.
C1_AllSentWhenNoFailures ==
    (pc = "Done" /\ \A k \in DOMAIN replies : replies[k] = Ok200)
        => (sent = Cardinality(NonBlankIdx) /\ failed = 0)

\* C2: every POST answered with a status other than 200 (204 as well as 500)
\* is counted in failed and not in sent, and has a diagnostic line showing the
\* status code and the first 80 characters of the line.
C2_NonOkStatusDiagnosed ==
    /\ \A k \in DOMAIN replies :
          (replies[k].kind \in {"status", "HTTPError"} /\ replies[k].code # 200)
             => \E d \in DOMAIN output :
                   /\ output[d].kind \in {"failed_status", "error"}
                   /\ output[d].n = replies[k].code
                   /\ output[d].text = Preview(BodyOf(posts[k]))
    /\ sent = Cardinality({ k \in DOMAIN replies : replies[k] = Ok200 })
    /\ pc # "Crashed"
          => failed = Cardinality({ k \in DOMAIN replies : replies[k] # Ok200 })

\* C3: a send that ends in a network or protocol failure (connection refused,
\* timeout, malformed response) is counted in failed, gets a diagnostic line,
\* and does not end the run.
C3_NetworkFailureRecovered ==
    LET F == { k \in DOMAIN replies :
                 replies[k].kind \in {"URLError", "TimeoutError", "BadStatusLine"} }
    IN  F # {} => /\ pc # "Crashed"
                  /\ failed >= Cardinality(F)
                  /\ Cardinality(Printed("error")) >= Cardinality(F)

\* C4: at every chunk boundary, and at the end, the number of progress lines
\* printed equals the number of multiples of 500 the processed count has
\* reached: one line per multiple, none before the multiple is reached.
C4_ProgressAtMultiples ==
    pc \in {"Loop", "Reporting", "Done"}
        => Cardinality(Printed("progress")) = (sent + failed) \div ProgressEvery

\* C5: for every integer batch size, a run that completes has posted exactly
\* the LogLines, one POST each, in file order.
C5_OnePostPerLine ==
    pc = "Done" => PostedBodies = lines

\* C6: a run whose file cannot be read or whose batch-size argument is not an
\* integer stops before the loop: it never posts and never prints a progress
\* line or a report; and a run ended by one of these errors has done neither.
C6_FatalBeforeNetwork ==
    LET badArg   == Len(argv) > 2 /\ \E k \in DOMAIN argv[3] :
                        ~IsDigit(argv[3][k]) /\ argv[3][k] \notin {"-", "+"}
        fatalIn  == fileStatus # "ok" \/ badArg
        fatalEnd == crash \in {"ValueError_int", "FileNotFoundError",
                               "UnicodeDecodeError"}
        quiet    == /\ posts = << >>
                    /\ replies = << >>
                    /\ Printed("report") = {}
                    /\ Printed("progress") = {}
    IN  /\ fatalIn => (quiet /\ pc \in {"Idle", "Reading", "Crashed"})
        /\ fatalEnd => (quiet /\ pc = "Crashed")

C6_Witness ==
    /\ pc = "Crashed"
    /\ crash = "FileNotFoundError"
    /\ Len(argv) > 2
    /\ output # << >>

\* C7: a run ends without a report only through a fatal error before any send;
\* once a send has been attempted the run goes on to the report.
C7_CrashOnlyBeforeSends ==
    pc = "Crashed" => posts = << >>

\* C8: once the file is read, the LogLines are the non-blank raw lines, each
\* trimmed, in file order; total_lines counts them; and every POST so far
\* carries the LogLine at its position, so no blank line is counted or sent.
C8_LinesAreTrimmedNonBlank ==
    ReadDone =>
        LET idx == NonBlankIdx
        IN  /\ Len(lines) = Cardinality(idx)
            /\ total_lines = Cardinality(idx)
            /\ \A x \in idx : IsTrimOf(lines[RankIn(idx, x)], fileLines[x])
            /\ Len(posts) <= Cardinality(idx)
            /\ \A k \in DOMAIN posts : BodyOf(posts[k]) = lines[k]

C8_Witness ==
    /\ pc = "Done"
    /\ fileLines = << <<"a", "\n">>, <<" ", " ", "\n">>,
                      <<" ", "b", " ", "b", "\t", "\n">> >>
    /\ lines = << <<"a">>, <<"b", " ", "b">> >>
    /\ Len(posts) = 2

\* C9: every posted payload holds exactly one log record; its body is the
\* trimmed line, its severityText is INFO, its severityNumber is 9, and its
\* two timestamps are equal.
C9_PayloadShape ==
    \A k \in DOMAIN posts :
        LET p == posts[k].json
            r == RecordOf(posts[k])
        IN  /\ Len(p.resourceLogs) = 1
            /\ Len(p.resourceLogs[1].scopeLogs) = 1
            /\ Len(p.resourceLogs[1].scopeLogs[1].logRecords) = 1
            /\ \E x \in NonBlankIdx :
                  /\ RankIn(NonBlankIdx, x) = k
                  /\ IsTrimOf(r.body.stringValue, fileLines[x])
            /\ r.severityText = <<"I", "N", "F", "O">>
            /\ r.severityNumber = 9
            /\ r.timeUnixNano = r.observedTimeUnixNano

C9_Witness ==
    /\ Len(posts) >= 2
    /\ \E k \in DOMAIN posts : Len(BodyOf(posts[k])) > PreviewLen
    /\ \E k \in DOMAIN posts : RecordOf(posts[k]).timeUnixNano # <<"0">>

\* C10: between send attempts sent + failed is the number of attempts made,
\* and when the report has been printed sent + failed is the number of
\* LogLines read.
C10_Accounting ==
    /\ pc \in {"Loop", "Sending", "Reporting", "Done"}
          => sent + failed = Len(posts)
    /\ pc = "Done" => sent + failed = total_lines

====
